---- MODULE Spec2Model ----
(***************************************************************************)
(* Model of the two generative models of this repository:                  *)
(*   src/denoising-diffusion/ddpm.py       (ResNet, MiniUnet, DDPM)        *)
(*   src/variational-autoencoder/vae/vae.py (VAE)                           *)
(*                                                                         *)
(* Numbers.  The code computes in torch.float32.  A float is modelled by a *)
(* signed fixed-point integer counting units of 1/ONE (ONE = 10^6); every  *)
(* arithmetic operation rounds its exact result toward zero to that grid,  *)
(* as a float operation rounds to the float grid.  TLC's integers are 32   *)
(* bits wide, so products and quotients are computed limb-wise (limb K).   *)
(*                                                                         *)
(* Tensors.  A batch of images is a sequence over the batch elements of a  *)
(* sequence over the pixels of one element; NPix pixels stand for the      *)
(* channels*height*width entries, which the DDPM methods only ever treat   *)
(* element-wise.  Shapes <<batch, channels, height, width>> are tracked    *)
(* separately, where the code depends on them.                             *)
(***************************************************************************)
EXTENDS Integers, Sequences, FiniteSets, TLC

(***************************************************************************)
(* Bounds of the model.                                                    *)
(***************************************************************************)
MaxN == 3          \* DDPM step counts N range over 1..MaxN
MaxBatch == 2      \* batch sizes range over 1..MaxBatch
MaxHidden == 3     \* hidden_dim ranges over 1..MaxHidden
MaxLayers == 3     \* n_layers ranges over 0..MaxLayers
MaxLatent == 2     \* VAE latent_dim ranges over 1..MaxLatent
NPix == 2          \* pixels modelled per batch element
Tol == 4           \* "floating-point tolerance", in units of 1/ONE

(***************************************************************************)
(* Fixed-point arithmetic standing for torch.float32.                      *)
(***************************************************************************)
K == 1000
ONE == K * K

Abs(x) == IF x < 0 THEN -x ELSE x
Sgn(x) == IF x < 0 THEN -1 ELSE 1
Max(a, b) == IF a >= b THEN a ELSE b

\* floor(a*b/ONE) for a, b >= 0, without leaving 32 bits
MulU(a, b) ==
    LET ah == a \div K
        al == a % K
        bh == b \div K
        bl == b % K
    IN  ah * bh + (ah * bl + al * bh + (al * bl) \div K) \div K

\* torch multiplication  a * b
FMul(a, b) == Sgn(a) * Sgn(b) * MulU(Abs(a), Abs(b))

\* floor(a*ONE/b) for a >= 0, b > 0, by long division in base K
DivU(a, b) ==
    LET q0 == a \div b
        s1 == (a % b) * K
        s2 == (s1 % b) * K
    IN  q0 * ONE + (s1 \div b) * K + s2 \div b

\* torch division  a / b
FDiv(a, b) == Sgn(a) * Sgn(b) * DivU(Abs(a), Abs(b))

\* the largest r in lo..hi with r*r <= x   (lo*lo <= x)
RECURSIVE ISqrt(_, _, _)
ISqrt(x, lo, hi) ==
    IF lo >= hi THEN lo
    ELSE LET mid == (lo + hi + 1) \div 2
         IN  IF mid * mid <= x THEN ISqrt(x, mid, hi) ELSE ISqrt(x, lo, mid - 1)

\* the largest d in lo..hi with 2*r*K*d + d*d <= rest*ONE
RECURSIVE SqrtLow(_, _, _, _)
SqrtLow(r, rest, lo, hi) ==
    IF lo >= hi THEN lo
    ELSE LET mid == (lo + hi + 1) \div 2
         IN  IF 2 * r * K * mid + mid * mid <= rest * ONE
             THEN SqrtLow(r, rest, mid, hi)
             ELSE SqrtLow(r, rest, lo, mid - 1)

\* torch.sqrt(x) for 0 <= x <= 1: floor(sqrt(x*ONE)) = r*K + d
FSqrt(x) ==
    LET r == ISqrt(x, 0, K)
    IN  IF r = K THEN ONE ELSE r * K + SqrtLow(r, x - r * r, 0, K - 1)

\* the Taylor series of exp, summed until the terms vanish on the grid
RECURSIVE ExpSum(_, _, _, _)
ExpSum(x, k, term, acc) ==
    IF term = 0 THEN acc
    ELSE LET t == FMul(term, x)
             nxt == Sgn(t) * (Abs(t) \div k)
         IN  ExpSum(x, k + 1, nxt, acc + nxt)

\* torch.exp(x)
FExp(x) == ExpSum(x, 1, ONE, ONE)

(***************************************************************************)
(* Tensors.  A vector is a sequence over the batch; an image batch is a    *)
(* sequence over the batch of sequences over the pixels.  A dimension of   *)
(* size 1 broadcasts, as in torch.                                         *)
(***************************************************************************)
Pick(x, i, p) == x[IF Len(x) = 1 THEN 1 ELSE i][IF Len(x[1]) = 1 THEN 1 ELSE p]

\* an element-wise binary torch operation on two image batches
Map2(Op(_, _), x, y) ==
    [i \in 1..Max(Len(x), Len(y)) |->
        [p \in 1..Max(Len(x[1]), Len(y[1])) |-> Op(Pick(x, i, p), Pick(y, i, p))]]

\* an element-wise unary torch operation on an image batch
Map1(Op(_), x) == [i \in 1..Len(x) |-> [p \in 1..Len(x[i]) |-> Op(x[i][p])]]

\* element-wise operations on vectors
VMap2(Op(_, _), a, b) == [i \in 1..Len(a) |-> Op(a[i], b[i])]
VMap1(Op(_), a) == [i \in 1..Len(a) |-> Op(a[i])]

FAdd(a, b) == a + b
FSub(a, b) == a - b
OneMinus(a) == ONE - a
Square(a) == FMul(a, a)

\* buf[n] for a Python index n: a negative index counts from the end
At(buf, n) == IF n < 0 THEN buf[Len(buf) + n + 1] ELSE buf[n + 1]

\* buf[n] for a tensor n of indices: one gathered (copied) entry per batch element
Gather(buf, n) == [i \in 1..Len(n) |-> At(buf, n[i])]

\* batch_broadcast(a, b): a.view(-1, 1, 1, 1), one scalar per batch element
BatchBroadcast(a, b) == [i \in 1..Len(a) |-> << a[i] >>]

RECURSIVE SumSeq(_)
SumSeq(s) == IF Len(s) = 0 THEN 0 ELSE s[1] + SumSeq(Tail(s))

\* torch.sum over every entry of an image batch
SumAll(x) == SumSeq([i \in 1..Len(x) |-> SumSeq(x[i])])

(***************************************************************************)
(* The noise schedule of DDPM.__init__.                                    *)
(***************************************************************************)
BetaStart == 100       \* beta_start = 1e-4
BetaEnd == 20000       \* beta_end = 2e-2

\* torch.linspace(start, end, steps)
Linspace(start, end, steps) ==
    [i \in 1..steps |->
        IF steps = 1 THEN start ELSE start + ((i - 1) * (end - start)) \div (steps - 1)]

\* torch.cumprod(a, dim=0)
RECURSIVE Cumprod(_)
Cumprod(a) ==
    IF Len(a) = 0 THEN << >>
    ELSE LET init == Cumprod(SubSeq(a, 1, Len(a) - 1))
         IN  Append(init, IF Len(a) = 1 THEN a[1] ELSE FMul(init[Len(a) - 1], a[Len(a)]))

\* the mutant of NumeratorShifted: no shift, 1 - alpha_bar[n] at index n
NumeratorUnshifted(alpha_bar) == VMap1(OneMinus, alpha_bar)

\* numerator_shifted = 1 - torch.cat((torch.ones(1), alpha_bar[:-1]))
NumeratorShifted(alpha_bar) ==
    VMap1(OneMinus, << ONE >> \o SubSeq(alpha_bar, 1, Len(alpha_bar) - 1))

\* beta_tilde = beta * (numerator_shifted / (1 - alpha_bar)); beta_tilde[0] = beta[0]
BetaTilde(beta, alpha_bar) ==
    LET ratio == VMap2(FDiv, NumeratorShifted(alpha_bar), VMap1(OneMinus, alpha_bar))
        prod == VMap2(FMul, beta, ratio)
    IN  [prod EXCEPT ![1] = beta[1]]

\* the four buffers __init__ registers for N steps
Schedule(steps) ==
    LET b == Linspace(BetaStart, BetaEnd, steps)
        a == VMap1(OneMinus, b)
        ab == Cumprod(a)
    IN  [beta |-> b, alpha |-> a, alpha_bar |-> ab, beta_tilde |-> BetaTilde(b, ab)]

(***************************************************************************)
(* The denoising networks, as far as shapes go.  A convolution is the pair *)
(* of its declared input and output channel counts; with kernel_size=3,    *)
(* padding=1 (or kernel_size=1) it keeps height and width.  A shape is     *)
(* <<batch, channels, height, width>>.                                     *)
(***************************************************************************)
Conv(cin, cout) == [cin |-> cin, cout |-> cout]

\* ResNet.__init__
ResNetInit(feature_dim, hidden_dim, n_layers) ==
    [err |-> "none", kind |-> "ResNet", n_layers |-> n_layers,
     embed |-> Conv(feature_dim + 1, hidden_dim),
     out |-> Conv(hidden_dim, feature_dim),
     layers |-> [i \in 1..n_layers |-> Conv(hidden_dim + 1, hidden_dim)]]

\* the layers of a MiniUnet of any depth
MiniUnetInitUnchecked(feature_dim, hidden_dim, n_layers) ==
    [err |-> "none", kind |-> "MiniUnet", n_layers |-> n_layers,
     embed |-> Conv(feature_dim + 1, hidden_dim),
     out |-> Conv(hidden_dim, feature_dim),
     downscaling |-> [k \in 1..n_layers |->
                        Conv(4^(k - 1) * hidden_dim + 1, 4^(k - 1) * hidden_dim)],
     bottom_map |-> Conv(4^n_layers * hidden_dim + 1, 4^n_layers * hidden_dim),
     upscaling |-> [k \in 1..n_layers |->
                      LET i == n_layers + 1 - k
                      IN  Conv(2 * 4^i * hidden_dim + 1, 4^i * hidden_dim)]]

\* MiniUnet.__init__: assert n_layers <= 2; downscaling for i in range(n_layers),
\* upscaling for i in reversed(range(1, n_layers + 1))
MiniUnetInit(feature_dim, hidden_dim, n_layers) ==
    IF ~(n_layers <= 2) THEN [err |-> "AssertionError", kind |-> "MiniUnet"]
    ELSE MiniUnetInitUnchecked(feature_dim, hidden_dim, n_layers)

ImgH == 28
ImgW == 28
ImageShape(b) == << b, 1, ImgH, ImgW >>

NoShape == << >>
Frame(pc, z, skips, i) == [pc |-> pc, z |-> z, skips |-> skips, i |-> i]
Failed(f) == Frame("error", NoShape, f.skips, f.i)

\* layer(cat_n(z, *tensors)): the channels of z and of the tensors, plus the one
\* of the noise level, must be the layer's declared input; height and width of
\* everything concatenated must agree
ApplyCat(layer, z, tensors) ==
    IF /\ \A t \in 1..Len(tensors) :
            tensors[t][1] = z[1] /\ tensors[t][3] = z[3] /\ tensors[t][4] = z[4]
       /\ z[2] + SumSeq([t \in 1..Len(tensors) |-> tensors[t][2]]) + 1 = layer.cin
    THEN << z[1], layer.cout, z[3], z[4] >>
    ELSE NoShape

\* z_n = self.embed(cat_n(z_n))
UnetEmbed(net, f) ==
    LET y == ApplyCat(net.embed, f.z, << >>)
    IN  IF y = NoShape THEN Failed(f)
        ELSE Frame(IF net.n_layers > 0 THEN "down" ELSE "bottom", y, << >>, 1)

\* one pass of the loop over self.downscaling: residual map, rearrange
\* "b c (h h2) (w w2) -> b (c h2 w2) h w", push the skip connection
UnetDown(net, f) ==
    LET y == ApplyCat(net.downscaling[f.i], f.z, << >>)
    IN  IF y = NoShape \/ y # f.z \/ f.z[3] % 2 # 0 \/ f.z[4] % 2 # 0 THEN Failed(f)
        ELSE LET r == << f.z[1], 4 * f.z[2], f.z[3] \div 2, f.z[4] \div 2 >>
             IN  Frame(IF f.i < net.n_layers THEN "down" ELSE "bottom",
                       r, Append(f.skips, r), f.i + 1)

\* z_n = self.bottom_map(cat_n(z_n))
UnetBottom(net, f) ==
    LET y == ApplyCat(net.bottom_map, f.z, << >>)
    IN  IF y = NoShape THEN Failed(f)
        ELSE Frame(IF net.n_layers > 0 THEN "up" ELSE "out", y, f.skips, 1)

\* the mutant of SkipPop: the first skip pushed is the first popped
SkipPopFirst(skips) == [top |-> skips[1], rest |-> Tail(skips)]

\* skip_connections.pop(): the last one pushed
SkipPop(skips) == [top |-> skips[Len(skips)], rest |-> SubSeq(skips, 1, Len(skips) - 1)]

\* one pass of the loop over self.upscaling: pop a skip, residual map of the
\* concatenation, rearrange "b (c h2 w2) h w -> b c (h h2) (w w2)"
UnetUp(net, f) ==
    IF f.skips = << >> THEN Failed(f)
    ELSE LET pop == SkipPop(f.skips)
             y == ApplyCat(net.upscaling[f.i], f.z, << pop.top >>)
         IN  IF y = NoShape \/ y # f.z \/ f.z[2] % 4 # 0
             THEN Frame("error", NoShape, pop.rest, f.i)
             ELSE Frame(IF f.i < net.n_layers THEN "up" ELSE "out",
                        << f.z[1], f.z[2] \div 4, 2 * f.z[3], 2 * f.z[4] >>,
                        pop.rest, f.i + 1)

\* return self.out(z_n)
UnetOut(net, f) ==
    IF f.z[2] # net.out.cin THEN Failed(f)
    ELSE Frame("done", << f.z[1], net.out.cout, f.z[3], f.z[4] >>, f.skips, f.i)

UnetStep(net, f) ==
    CASE f.pc = "embed" -> UnetEmbed(net, f)
      [] f.pc = "down" -> UnetDown(net, f)
      [] f.pc = "bottom" -> UnetBottom(net, f)
      [] f.pc = "up" -> UnetUp(net, f)
      [] f.pc = "out" -> UnetOut(net, f)
      [] OTHER -> f

\* the frame the forward pass ends in
RECURSIVE UnetRun(_, _)
UnetRun(net, f) == IF f.pc \in {"done", "error"} THEN f ELSE UnetRun(net, UnetStep(net, f))

\* MiniUnet.forward(z_n, n): the shape returned, NoShape when a layer rejects its input
MiniUnetForward(net, zshape) == UnetRun(net, Frame("embed", zshape, << >>, 1)).z

\* ResNet.forward(z_n, n): embed, the residual layers, out
ResNetForward(net, zshape) ==
    LET e == ApplyCat(net.embed, zshape, << >>)
    IN  IF e = NoShape THEN NoShape
        ELSE IF \E l \in 1..Len(net.layers) : ApplyCat(net.layers[l], e, << >>) # e
             THEN NoShape
             ELSE IF e[2] # net.out.cin THEN NoShape
                  ELSE << e[1], net.out.cout, e[3], e[4] >>

\* self.model(z_n, n), whichever network the DDPM holds
ModelForward(net, zshape) ==
    IF net.kind = "ResNet" THEN ResNetForward(net, zshape) ELSE MiniUnetForward(net, zshape)

(***************************************************************************)
(* The mathematics of the DDPM methods, on the schedule buffers.           *)
(***************************************************************************)
MinusOne(m) == m - 1

\* norm_n = n / float(self.N), per batch element
NormLevel(n, steps) == [i \in 1..Len(n) |-> (n[i] * ONE) \div steps]

\* simplified_loss: broadcasted_alpha_bar_n * x0, then
\* z_n += batch_broadcast(sqrt(1 - alpha_bar[n]), epsilon) * epsilon
NoisedInput(ab, x0, n, epsilon) ==
    LET broadcasted_alpha_bar_n == BatchBroadcast(Gather(ab, n), x0)
        z0 == Map2(FMul, broadcasted_alpha_bar_n, x0)
    IN  Map2(FAdd, z0,
             Map2(FMul, BatchBroadcast(VMap1(FSqrt, VMap1(OneMinus, Gather(ab, n))), epsilon),
                  epsilon))

\* loss = torch.sum((epsilon - epsilon_theta) ** 2)
SquaredError(epsilon, epsilon_theta) ==
    SumAll(Map1(Square, Map2(FSub, epsilon, epsilon_theta)))

\* estimate_x0: (z_n - sqrt(1 - alpha_bar[n]) * epsilon) / sqrt(alpha_bar[n])
EstimateX0(ab, z_n, n, epsilon) ==
    LET broadcasted_alpha_bar_n == BatchBroadcast(Gather(ab, n), z_n)
    IN  Map2(FDiv,
             Map2(FSub, z_n,
                  Map2(FMul, Map1(FSqrt, Map1(OneMinus, broadcasted_alpha_bar_n)), epsilon)),
             Map1(FSqrt, broadcasted_alpha_bar_n))

\* sample_z_n_previous: the mean mu of the normal distribution drawn from
PosteriorMean(a, b, ab, x0, z_n, n) ==
    LET prev == VMap1(MinusOne, n)
        cz == VMap2(FDiv,
                    VMap2(FMul, VMap1(FSqrt, Gather(a, n)), VMap1(OneMinus, Gather(ab, prev))),
                    VMap1(OneMinus, Gather(ab, n)))
        cx == VMap2(FDiv,
                    VMap2(FMul, VMap1(FSqrt, Gather(ab, prev)), Gather(b, n)),
                    VMap1(OneMinus, Gather(ab, n)))
    IN  Map2(FAdd, Map2(FMul, z_n, BatchBroadcast(cz, z_n)),
                   Map2(FMul, x0, BatchBroadcast(cx, x0)))

\* sample_z_n_previous: what torch.normal is given as std
PosteriorStd(bt, z_n, n) == BatchBroadcast(Gather(bt, n), z_n)

\* torch.normal(mean, std) for the standard-normal draws xi: mean + std * xi
Normal(mean, std, xi) == Map2(FAdd, mean, Map2(FMul, std, xi))

\* the variance of the distribution torch.normal(mean, std) draws from
Variance(std) == Map1(Square, std)

(***************************************************************************)
(* Inputs.                                                                 *)
(***************************************************************************)
Half == ONE \div 2
Const(b, v) == [i \in 1..b |-> [p \in 1..NPix |-> v]]
Ramp(b) == [i \in 1..b |-> [p \in 1..NPix |-> (((2 * i + p) % 5) - 2) * Half]]

\* image batches handed to the methods (clean or noisy data)
Images(b) == {Const(b, -Half), Ramp(b)}

\* noise instances epsilon
Noises(b) == {Const(b, ONE), Ramp(b)}

\* what the denoising network may answer
Predictions(b) == {Const(b, 0), Ramp(b)}

\* standard-normal draws
Draws(b) == {Const(b, ONE), Ramp(b)}

\* noise levels in 0..steps-1, rising (cyclically) along the batch
Levels(b, steps) == {[i \in 1..b |-> (m + i - 1) % steps] : m \in 0..(steps - 1)}

Types == {"resnet", "unet", "vit"}

(***************************************************************************)
(* State.                                                                  *)
(*   ctor, N, type, model, alpha, beta, alpha_bar, beta_tilde: one DDPM    *)
(*     object; ctor is "none" before __init__ runs, "ok" once it returned, *)
(*     or the exception it raised.  An unregistered buffer or an unset     *)
(*     attribute is << >> (for N: -1, for type: "").                       *)
(*   last: the record of the most recent method call: its arguments and,   *)
(*     once it returned, what it computed.                                 *)
(*   smp: the frame of DDPM.sample while it runs.                          *)
(*   unet: one MiniUnet and the frame of its forward pass.                 *)
(*   vae: one VAE and its most recent kl_divergence call.                  *)
(***************************************************************************)
VARIABLES ctor, N, type, model, alpha, beta, alpha_bar, beta_tilde, last, smp, unet, vae

vars == << ctor, N, type, model, alpha, beta, alpha_bar, beta_tilde, last, smp, unet, vae >>
object == << ctor, N, type, model >>
schedule == << alpha, beta, alpha_bar, beta_tilde >>

Unset == << >>
NoCall == [op |-> "none"]
Idle == [pc |-> "idle"]

InitDDPM ==
    /\ ctor = "none" /\ N = -1 /\ type = "" /\ model = Unset
    /\ alpha = Unset /\ beta = Unset /\ alpha_bar = Unset /\ beta_tilde = Unset
    /\ last = NoCall /\ smp = Idle

Init == InitDDPM /\ unet = Idle /\ vae = Idle

(***************************************************************************)
(* DDPM.__init__(N, type, hidden_dim, n_layers)                            *)
(***************************************************************************)
\* the mutant of BuildModel: an unknown type falls back to the ResNet
BuildModelLenient(ty, hidden_dim, n_layers) ==
    IF ty = "unet" THEN MiniUnetInit(1, hidden_dim, n_layers)
    ELSE ResNetInit(1, hidden_dim, n_layers)

\* the network the constructor builds for `type`, or the error it raises
BuildModel(ty, hidden_dim, n_layers) ==
    IF ty = "resnet" THEN ResNetInit(1, hidden_dim, n_layers)
    ELSE IF ty = "unet" THEN MiniUnetInit(1, hidden_dim, n_layers)
    ELSE [err |-> "RuntimeError", kind |-> "none"]

\* the attributes and buffers of the object when __init__ ends, by return or by
\* raise: self.N and self.type are assigned first, the network next, and the
\* buffers are registered last
DDPMInit(steps, ty, hidden_dim, n_layers) ==
    LET m == BuildModel(ty, hidden_dim, n_layers)
        sch == Schedule(steps)
    IN  IF m.err # "none"
        THEN [ctor |-> m.err, N |-> steps, type |-> ty, model |-> Unset,
              alpha |-> Unset, beta |-> Unset, alpha_bar |-> Unset, beta_tilde |-> Unset]
        ELSE [ctor |-> "ok", N |-> steps, type |-> ty, model |-> m,
              alpha |-> sch.alpha, beta |-> sch.beta,
              alpha_bar |-> sch.alpha_bar, beta_tilde |-> sch.beta_tilde]

\* the object is what __init__ left
Holds(o) ==
    /\ ctor = o.ctor /\ N = o.N /\ type = o.type /\ model = o.model
    /\ alpha = o.alpha /\ beta = o.beta
    /\ alpha_bar = o.alpha_bar /\ beta_tilde = o.beta_tilde

\* the record of the call DDPM(N, type, hidden_dim, n_layers)
InitCall(steps, ty, hidden_dim, n_layers) ==
    [op |-> "__init__", N |-> steps, type |-> ty,
     hidden_dim |-> hidden_dim, n_layers |-> n_layers]

Construct(steps, ty, hidden_dim, n_layers) ==
    /\ ctor = "none"
    /\ LET o == DDPMInit(steps, ty, hidden_dim, n_layers)
       IN  /\ ctor' = o.ctor /\ N' = o.N /\ type' = o.type /\ model' = o.model
           /\ alpha' = o.alpha /\ beta' = o.beta
           /\ alpha_bar' = o.alpha_bar /\ beta_tilde' = o.beta_tilde
    /\ last' = InitCall(steps, ty, hidden_dim, n_layers)
    /\ UNCHANGED << smp, unet, vae >>

(***************************************************************************)
(* The DDPM methods.  Each is called on a constructed object while no      *)
(* other call runs (the code is sequential), and leaves its record in last.*)
(***************************************************************************)
Callable == ctor = "ok" /\ smp.pc = "idle"

LossRecord(op, x0, n, epsilon, epsilon_theta) ==
    LET z_n == NoisedInput(alpha_bar, x0, n, epsilon)
    IN  [op |-> op, x0 |-> x0, n |-> n, epsilon |-> epsilon,
         z_n |-> z_n, norm_n |-> NormLevel(n, N),
         epsilon_theta |-> epsilon_theta, loss |-> SquaredError(epsilon, epsilon_theta)]

\* the mutant of SimplifiedLoss: the noised input is accumulated in the
\* alpha_bar buffer itself (self.alpha_bar[n] *= ...) instead of a fresh tensor
SimplifiedLossInPlace(x0, n, epsilon, epsilon_theta) ==
    /\ Callable
    /\ last' = LossRecord("simplified_loss", x0, n, epsilon, epsilon_theta)
    /\ alpha_bar' = [k \in 1..Len(alpha_bar) |->
                        IF \E i \in 1..Len(n) : n[i] + 1 = k
                        THEN FMul(alpha_bar[k], x0[1][1]) ELSE alpha_bar[k]]
    /\ UNCHANGED << object, alpha, beta, beta_tilde, smp, unet, vae >>

\* DDPM.simplified_loss(x0, n, epsilon); epsilon_theta is the network's answer
SimplifiedLoss(x0, n, epsilon, epsilon_theta) ==
    /\ Callable
    /\ last' = LossRecord("simplified_loss", x0, n, epsilon, epsilon_theta)
    /\ UNCHANGED << object, schedule, smp, unet, vae >>

\* DDPM.loss(x0): n = torch.randint(N, (batch_size,)), epsilon = torch.randn_like(x0)
Loss(x0) ==
    /\ Callable
    /\ \E n \in Levels(Len(x0), N), epsilon \in Noises(Len(x0)),
          epsilon_theta \in Predictions(Len(x0)) :
            last' = LossRecord("loss", x0, n, epsilon, epsilon_theta)
    /\ UNCHANGED << object, schedule, smp, unet, vae >>

\* DDPM.estimate_x0(z_n, n, epsilon).  origin is the clean input z_n was noised
\* from, when the caller passes on what simplified_loss made with this n and
\* epsilon, and Unset otherwise.
EstimateX0Call(z_n, n, epsilon, origin) ==
    /\ Callable
    /\ last' = [op |-> "estimate_x0", z_n |-> z_n, n |-> n, epsilon |-> epsilon,
                origin |-> origin, x_0 |-> EstimateX0(alpha_bar, z_n, n, epsilon)]
    /\ UNCHANGED << object, schedule, smp, unet, vae >>

\* estimate_x0 on the output of the simplified_loss or loss call just made
Reconstruct ==
    /\ last.op \in {"simplified_loss", "loss"}
    /\ EstimateX0Call(last.z_n, last.n, last.epsilon, last.x0)

\* DDPM.sample_z_n_previous(x0, z_n, n); xi are torch.normal's standard draws
SampleZnPrevious(x0, z_n, n, xi) ==
    /\ Callable
    /\ LET mu == PosteriorMean(alpha, beta, alpha_bar, x0, z_n, n)
           std == PosteriorStd(beta_tilde, z_n, n)
       IN  last' = [op |-> "sample_z_n_previous", x0 |-> x0, z_n |-> z_n, n |-> n,
                    mean |-> mu, std |-> std, out |-> Normal(mu, std, xi)]
    /\ UNCHANGED << object, schedule, smp, unet, vae >>

(***************************************************************************)
(* DDPM.sample(batch_size, device), one action per pass of its loop.       *)
(***************************************************************************)
\* the mutant of SampleLevels: range(self.N) without reversed
SampleLevelsForward(steps) == [k \in 1..steps |-> k - 1]

\* reversed(range(self.N))
SampleLevels(steps) == [k \in 1..steps |-> steps - k]

\* the mutant of NoiseShape: height and width one short
NoiseShapeCropped(batch_size) == << batch_size, 1, ImgH - 1, ImgW - 1 >>

\* noise_shape = (batch_size, 1, 28, 28)
NoiseShape(batch_size) == << batch_size, 1, ImgH, ImgW >>

\* torch.full((batch_size,), v)
Full(batch_size, v) == [i \in 1..batch_size |-> v]

\* the shape two shapes broadcast to, NoShape when they do not
BroadcastShape(s, t) ==
    IF s = NoShape \/ t = NoShape \/ Len(s) # Len(t) THEN NoShape
    ELSE IF \E d \in 1..Len(s) : s[d] # t[d] /\ s[d] # 1 /\ t[d] # 1 THEN NoShape
         ELSE [d \in 1..Len(s) |-> Max(s[d], t[d])]

\* noise_shape; z_n = torch.randn(size=noise_shape); the loop is entered
SampleBegin(batch_size, noise) ==
    /\ Callable
    /\ smp' = [pc |-> "loop", batch_size |-> batch_size, it |-> SampleLevels(N),
               z_n |-> noise, zshape |-> NoiseShape(batch_size),
               x0 |-> Unset, x0shape |-> NoShape,
               queries |-> << >>, estimates |-> << >>, prev_calls |-> << >>]
    /\ last' = [op |-> "sample", returned |-> FALSE, batch_size |-> batch_size]
    /\ UNCHANGED << object, schedule, unet, vae >>

\* the frame after one pass of "for n in reversed(range(self.N))": query the
\* network, estimate x0, break at n == 0, else sample z_{n-1}
SamplePass(f, predicted_noise, xi) ==
    LET n == Head(f.it)
        noise_level == Full(f.batch_size, n)
        normalize_noise_level == Full(f.batch_size, (n * ONE) \div N)
        pshape == ModelForward(model, f.zshape)
        x0 == EstimateX0(alpha_bar, f.z_n, noise_level, predicted_noise)
        x0shape == BroadcastShape(f.zshape, pshape)
        asked == Append(f.queries,
                        [n |-> n, z_n |-> f.z_n, norm |-> normalize_noise_level,
                         pred |-> predicted_noise])
        done == Append(f.estimates, [n |-> n, x0 |-> x0])
    IN  IF x0shape # f.zshape
        THEN [f EXCEPT !.pc = "error", !.queries = asked]
        ELSE IF n = 0
        THEN [f EXCEPT !.pc = "return", !.x0 = x0, !.x0shape = x0shape,
                       !.queries = asked, !.estimates = done]
        ELSE [f EXCEPT !.pc = IF Tail(f.it) = << >> THEN "return" ELSE "loop",
                       !.it = Tail(f.it),
                       !.x0 = x0, !.x0shape = x0shape,
                       !.queries = asked, !.estimates = done,
                       !.prev_calls = Append(f.prev_calls, n),
                       !.z_n = Normal(PosteriorMean(alpha, beta, alpha_bar, x0,
                                                    f.z_n, noise_level),
                                      PosteriorStd(beta_tilde, f.z_n, noise_level),
                                      xi)]

SampleIter(predicted_noise, xi) ==
    /\ smp.pc = "loop"
    /\ smp.it # << >>
    /\ smp' = SamplePass(smp, predicted_noise, xi)
    /\ UNCHANGED << object, schedule, last, unet, vae >>

\* a pass of the loop, for whatever the network answers and torch.normal draws
SampleLoop ==
    /\ smp.pc = "loop"
    /\ \E predicted_noise \in Predictions(smp.batch_size), xi \in Draws(smp.batch_size) :
         SampleIter(predicted_noise, xi)

\* return x0
SampleReturn ==
    /\ smp.pc = "return"
    /\ last' = [op |-> "sample", returned |-> TRUE,
                batch_size |-> smp.batch_size, out |-> smp.x0,
                shape |-> smp.x0shape, queries |-> smp.queries,
                estimates |-> smp.estimates, prev_calls |-> smp.prev_calls]
    /\ smp' = Idle
    /\ UNCHANGED << object, schedule, unet, vae >>

(***************************************************************************)
(* Specifications.                                                         *)
(*   CtorSpec: DDPM.__init__ on every argument list within the bounds.     *)
(*   Spec: a constructed DDPM (either network, at its largest) and any     *)
(*         sequence of calls of its methods.                               *)
(*   SampleSpec: the same object, calls of sample only.                    *)
(***************************************************************************)
Batches == 1..MaxBatch
UnetMaxLayers == 2

CtorNext ==
    \E steps \in 1..MaxN, ty \in Types, hidden_dim \in 1..MaxHidden,
       n_layers \in 0..MaxLayers :
         Construct(steps, ty, hidden_dim, n_layers)

CtorSpec == Init /\ [][CtorNext]_vars

Built(steps, ty, hidden_dim, n_layers) ==
    /\ Holds(DDPMInit(steps, ty, hidden_dim, n_layers))
    /\ last = InitCall(steps, ty, hidden_dim, n_layers)

InitBuilt ==
    /\ \E steps \in 1..MaxN :
         \/ Built(steps, "resnet", MaxHidden, MaxLayers)
         \/ Built(steps, "unet", MaxHidden, UnetMaxLayers)
    /\ smp = Idle /\ unet = Idle /\ vae = Idle

Next ==
    \/ \E b \in Batches :
         \E x0 \in Images(b), n \in Levels(b, N), epsilon \in Noises(b),
            epsilon_theta \in Predictions(b) :
              SimplifiedLoss(x0, n, epsilon, epsilon_theta)
    \/ \E b \in Batches : \E x0 \in Images(b) : Loss(x0)
    \/ \E b \in Batches :
         \E z_n \in Images(b), n \in Levels(b, N), epsilon \in Noises(b) :
              EstimateX0Call(z_n, n, epsilon, Unset)
    \/ Reconstruct
    \/ \E b \in Batches :
         \E x0 \in Images(b), z_n \in Images(b), n \in Levels(b, N), xi \in Draws(b) :
              SampleZnPrevious(x0, z_n, n, xi)
    \/ \E b \in Batches : \E noise \in Draws(b) : SampleBegin(b, noise)
    \/ SampleLoop
    \/ SampleReturn

Spec == InitBuilt /\ [][Next]_vars

\* a constructed DDPM on which only sample is called
SampleNext ==
    \/ \E b \in Batches : \E noise \in Draws(b) : SampleBegin(b, noise)
    \/ SampleLoop
    \/ SampleReturn

SampleSpec == InitBuilt /\ [][SampleNext]_vars

(***************************************************************************)
(* MiniUnet on its own: construction, then forward passes on 28x28 inputs, *)
(* one action per layer applied.                                           *)
(***************************************************************************)
UnetConstruct(hidden_dim, n_layers) ==
    /\ unet.pc = "idle"
    /\ LET net == MiniUnetInit(1, hidden_dim, n_layers)
       IN  unet' = IF net.err # "none"
                   THEN [pc |-> "rejected", err |-> net.err, n_layers |-> n_layers]
                   ELSE [pc |-> "built", net |-> net, hidden_dim |-> hidden_dim]
    /\ UNCHANGED << object, schedule, last, smp, vae >>

\* forward(z_n, n) is entered with z_n of shape (batch_size, 1, 28, 28)
UnetForwardCall(batch_size) ==
    /\ unet.pc \in {"built", "done"}
    /\ unet' = [pc |-> "embed", net |-> unet.net, hidden_dim |-> unet.hidden_dim,
                input |-> ImageShape(batch_size),
                f |-> Frame("embed", ImageShape(batch_size), << >>, 1)]
    /\ UNCHANGED << object, schedule, last, smp, vae >>

\* z_n = self.embed(cat_n(z_n))
UnetEmbedStep ==
    /\ unet.pc = "embed"
    /\ LET g == UnetEmbed(unet.net, unet.f)
       IN  unet' = [unet EXCEPT !.pc = g.pc, !.f = g]
    /\ UNCHANGED << object, schedule, last, smp, vae >>

\* one pass of the loop over self.downscaling
UnetDownStep ==
    /\ unet.pc = "down"
    /\ LET g == UnetDown(unet.net, unet.f)
       IN  unet' = [unet EXCEPT !.pc = g.pc, !.f = g]
    /\ UNCHANGED << object, schedule, last, smp, vae >>

\* z_n = self.bottom_map(cat_n(z_n))
UnetBottomStep ==
    /\ unet.pc = "bottom"
    /\ LET g == UnetBottom(unet.net, unet.f)
       IN  unet' = [unet EXCEPT !.pc = g.pc, !.f = g]
    /\ UNCHANGED << object, schedule, last, smp, vae >>

\* one pass of the loop over self.upscaling
UnetUpStep ==
    /\ unet.pc = "up"
    /\ LET g == UnetUp(unet.net, unet.f)
       IN  unet' = [unet EXCEPT !.pc = g.pc, !.f = g]
    /\ UNCHANGED << object, schedule, last, smp, vae >>

\* return self.out(z_n)
UnetOutStep ==
    /\ unet.pc = "out"
    /\ LET g == UnetOut(unet.net, unet.f)
       IN  unet' = [unet EXCEPT !.pc = g.pc, !.f = g]
    /\ UNCHANGED << object, schedule, last, smp, vae >>

UnetNext ==
    \/ \E hidden_dim \in 1..MaxHidden, n_layers \in 0..MaxLayers :
         UnetConstruct(hidden_dim, n_layers)
    \/ \E b \in Batches : UnetForwardCall(b)
    \/ UnetEmbedStep
    \/ UnetDownStep
    \/ UnetBottomStep
    \/ UnetUpStep
    \/ UnetOutStep

UnetSpec == Init /\ [][UnetNext]_vars

(***************************************************************************)
(* VAE.kl_divergence.  mu and logsigma are batches of latent vectors.      *)
(***************************************************************************)
\* the mutant of KlTerm: the constant -1 forgotten
KlTermNoOne(mu, logsigma) ==
    LET log_sigma_squared == logsigma + logsigma
    IN  FExp(log_sigma_squared) + FMul(mu, mu) - log_sigma_squared

\* sigma_squared + mu_squared - log_sigma_squared - 1, for one latent dimension
KlTerm(mu, logsigma) ==
    LET log_sigma_squared == logsigma + logsigma
        sigma_squared == FExp(log_sigma_squared)
        mu_squared == FMul(mu, mu)
    IN  sigma_squared + mu_squared - log_sigma_squared - ONE

\* 0.5 * torch.sum(..., 1): one value per batch element
KlDivergence(mu, logsigma) ==
    [i \in 1..Len(mu) |->
        FMul(Half, SumSeq([d \in 1..Len(mu[i]) |-> KlTerm(mu[i][d], logsigma[i][d])]))]

\* VAE.__init__(input_dim, latent_dim, hidden_dim): the latent dimension kept
VaeConstruct(latent_dim) ==
    /\ vae.pc = "idle"
    /\ vae' = [pc |-> "built", latent_dim |-> latent_dim, call |-> NoCall]
    /\ UNCHANGED << object, schedule, last, smp, unet >>

\* VAE.kl_divergence(mu, logsigma)
KlDivergenceCall(mu, logsigma) ==
    /\ vae.pc = "built"
    /\ vae' = [vae EXCEPT !.call = [op |-> "kl_divergence", mu |-> mu,
                                    logsigma |-> logsigma,
                                    kl |-> KlDivergence(mu, logsigma)]]
    /\ UNCHANGED << object, schedule, last, smp, unet >>

\* entries of mu and of logsigma: zero, one unit of the grid, 1e-4, -0.5, 1
MuValues == {0, 1, -Half}
LogSigmaValues == {0, 100, -Half}

Reverse(r) == [d \in 1..Len(r) |-> r[Len(r) + 1 - d]]

\* latent vectors over `values`: one value in the first dimension, one in all
\* the others
LatentVectors(latent_dim, values) ==
    {[d \in 1..latent_dim |-> IF d = 1 THEN v ELSE w] : v \in values, w \in values}

\* batches of latent vectors: the first element any such vector, the later
\* ones that vector and its reverse in turn
LatentBatches(b, latent_dim, values) ==
    {[i \in 1..b |-> IF i % 2 = 1 THEN r ELSE Reverse(r)] :
        r \in LatentVectors(latent_dim, values)}

\* kl_divergence on any batch of means and log standard deviations
KlDivergenceAny ==
    /\ vae.pc = "built"
    /\ \E b \in Batches :
         \E mu \in LatentBatches(b, vae.latent_dim, MuValues),
            logsigma \in LatentBatches(b, vae.latent_dim, LogSigmaValues) :
              KlDivergenceCall(mu, logsigma)

VaeNext ==
    \/ \E latent_dim \in 1..MaxLatent : VaeConstruct(latent_dim)
    \/ KlDivergenceAny

VaeSpec == Init /\ [][VaeNext]_vars

(***************************************************************************)
(* Properties.                                                             *)
(***************************************************************************)
\* two image batches agree entry by entry, to the tolerance
Close(x, y) ==
    /\ Len(x) = Len(y)
    /\ \A i \in 1..Len(x) :
         /\ Len(x[i]) = Len(y[i])
         /\ \A p \in 1..Len(x[i]) : Abs(x[i][p] - y[i][p]) <= Tol

Forward(r) == r.op \in {"simplified_loss", "loss"}

\* C1: the noised input simplified_loss feeds to the network is
\* sqrt(alpha_bar[n]) * x0 + sqrt(1 - alpha_bar[n]) * epsilon, the two
\* coefficients being those of each entry's own batch element.
C1_NoisedInputUsesSqrtAlphaBar ==
    Forward(last) =>
        Close(last.z_n,
              [i \in 1..Len(last.x0) |-> [p \in 1..Len(last.x0[i]) |->
                  FMul(FSqrt(At(alpha_bar, last.n[i])), last.x0[i][p])
                    + FMul(FSqrt(ONE - At(alpha_bar, last.n[i])), last.epsilon[i][p])]])

\* C2: for noise levels n >= 1, sample_z_n_previous draws from the normal
\* distribution with mean z_n*sqrt(alpha[n])*(1-alpha_bar[n-1])/(1-alpha_bar[n])
\* + x0*sqrt(alpha_bar[n-1])*beta[n]/(1-alpha_bar[n]) and variance beta_tilde[n].
C2_PosteriorVarianceIsBetaTilde ==
    (last.op = "sample_z_n_previous" /\ \A i \in 1..Len(last.n) : last.n[i] >= 1) =>
        /\ Close(last.mean,
                 [i \in 1..Len(last.n) |-> [p \in 1..Len(last.z_n[i]) |->
                     LET n == last.n[i]
                         d == ONE - At(alpha_bar, n)
                     IN  FMul(last.z_n[i][p],
                              FDiv(FMul(FSqrt(At(alpha, n)), ONE - At(alpha_bar, n - 1)), d))
                           + FMul(last.x0[i][p],
                                  FDiv(FMul(FSqrt(At(alpha_bar, n - 1)), At(beta, n)), d))]])
        /\ \A i \in 1..Len(last.n) :
             Abs(Variance(last.std)[i][1] - At(beta_tilde, last.n[i])) <= Tol

\* C3: estimate_x0, given the noised input simplified_loss made from (x0, n,
\* epsilon) and that same epsilon, returns x0.
C3_EstimateX0InvertsNoising ==
    (last.op = "estimate_x0" /\ last.origin # Unset) => Close(last.x_0, last.origin)

\* what sample has done so far: its frame while it runs, its record afterwards
Trace == IF smp.pc = "idle" THEN last ELSE smp

\* C4: sample starts from pure noise and asks the network at the levels N-1,
\* N-2, ..., 0, in that order and once each, with (z_n, n/N); the x0 estimate
\* of a level is computed from that level's prediction; sample_z_n_previous is
\* called exactly at the levels N-1, ..., 1; what is returned is the estimate
\* made at level 0.
C4_SampleVisitsLevelsDownward ==
    /\ (smp.pc # "idle" \/ last.op = "sample") =>
         LET t == Trace
             b == t.batch_size
         IN  /\ Len(t.queries) <= N
             /\ \A k \in 1..Len(t.queries) :
                  /\ t.queries[k].n = N - k
                  /\ t.queries[k].norm = Full(b, ((N - k) * ONE) \div N)
             /\ Len(t.queries) >= 1 => t.queries[1].z_n \in Draws(b)
             /\ Len(t.estimates) <= Len(t.queries)
             /\ \A k \in 1..Len(t.estimates) :
                  /\ t.estimates[k].n = t.queries[k].n
                  /\ t.estimates[k].x0 =
                       EstimateX0(alpha_bar, t.queries[k].z_n, Full(b, N - k),
                                  t.queries[k].pred)
             /\ Len(t.prev_calls) <= N - 1
             /\ \A k \in 1..Len(t.prev_calls) :
                  /\ t.prev_calls[k] = N - k
                  /\ t.prev_calls[k] - 1 \in 0..(N - 2)
    /\ (last.op = "sample" /\ last.returned) =>
         /\ Len(last.queries) = N
         /\ Len(last.estimates) = N
         /\ Len(last.prev_calls) = N - 1
         /\ last.out = last.estimates[N].x0
         /\ last.estimates[N].n = 0

C4_Witness ==
    /\ last.op = "sample" /\ last.returned
    /\ N > 2
    /\ Len(last.prev_calls) = N - 1

\* C5: sample terminates, its last pass is the one with n = 0, and it returns
\* a tensor of shape (batch_size, 1, 28, 28).  sample is sequential code, so
\* it terminates when no pass of its loop fails or is left without a level to
\* take, every pass that stays in the loop shortens the levels still to
\* visit (at most N to begin with), and the loop is left only for the return.
C5_SampleTerminates ==
    /\ [](smp.pc \in {"idle", "loop", "return"})
    /\ [](smp.pc = "loop" =>
            /\ smp.it # << >>
            /\ Len(smp.it) <= N
            /\ smp.batch_size >= 1)
    /\ [][(smp.pc = "loop" /\ smp'.pc = "loop") => Len(smp'.it) < Len(smp.it)]_vars
    /\ [][(smp.pc = "loop" /\ smp'.pc # "loop") =>
             (smp'.pc = "return" /\ Head(smp.it) = 0)]_vars
    /\ [][smp.pc = "return" =>
             /\ last'.op = "sample" /\ last'.returned /\ smp'.pc = "idle"
             /\ last'.queries[Len(last'.queries)].n = 0
             /\ last'.shape = << last'.batch_size, 1, 28, 28 >>]_vars

C5_Witness ==
    /\ last.op = "sample" /\ last.returned
    /\ last.batch_size = MaxBatch
    /\ model.kind = "MiniUnet"
    /\ last.shape = << MaxBatch, 1, 28, 28 >>

\* C7: no method call changes the step count N or an entry of the buffers
\* alpha, beta, alpha_bar, beta_tilde.
C7_ScheduleImmutable ==
    [][<< N, alpha, beta, alpha_bar, beta_tilde >>' = << N, alpha, beta, alpha_bar, beta_tilde >>]_vars

C7_Witness ==
    /\ last.op = "sample_z_n_previous"
    /\ << alpha, beta, alpha_bar, beta_tilde >>
         = << Schedule(N).alpha, Schedule(N).beta, Schedule(N).alpha_bar,
              Schedule(N).beta_tilde >>

\* the object the constructor returned carries buffers of N entries each
Registered ==
    /\ Len(alpha) = N /\ Len(beta) = N /\ Len(alpha_bar) = N /\ Len(beta_tilde) = N

\* the constructor raised before anything but N and type was assigned
NothingRegistered ==
    /\ model = Unset
    /\ alpha = Unset /\ beta = Unset /\ alpha_bar = Unset /\ beta_tilde = Unset

\* C6: the schedule __init__ builds has alpha = 1 - beta, alpha_bar the running
\* product of alpha, beta_tilde[0] = beta[0] and, for n in 1..N-1,
\* beta_tilde[n] = beta[n] * (1 - alpha_bar[n-1]) / (1 - alpha_bar[n]): the
\* numerator is taken from the entry before n, not from n or from the last entry.
C6_BetaTildeFromShiftedAlphaBar ==
    ctor = "ok" =>
        /\ Registered
        /\ \A k \in 1..N : alpha[k] = ONE - beta[k]
        /\ alpha_bar[1] = alpha[1]
        /\ \A k \in 2..N : alpha_bar[k] = FMul(alpha_bar[k - 1], alpha[k])
        /\ beta_tilde[1] = beta[1]
        /\ \A k \in 2..N :
             /\ Abs(beta_tilde[k]
                    - FMul(beta[k], FDiv(ONE - alpha_bar[k - 1], ONE - alpha_bar[k]))) <= Tol
             /\ beta_tilde[k] < beta[k]

C6_Witness == ctor = "ok" /\ N > 2 /\ Len(beta_tilde) = N

\* the value the formula of kl_divergence has for one batch element, with
\* sigma = exp(logsigma)
KlFormula(mu, logsigma) ==
    SumSeq([d \in 1..Len(mu) |->
              LET sigma == FExp(logsigma[d])
              IN  FMul(sigma, sigma) + FMul(mu[d], mu[d]) - 2 * logsigma[d] - ONE]) \div 2

StandardNormal(mu, logsigma) == \A d \in 1..Len(mu) : mu[d] = 0 /\ logsigma[d] = 0

KlCalled == vae.pc = "built" /\ vae.call.op = "kl_divergence"

\* C8 as stated: kl_divergence returns 1/2 * sum(sigma^2 + mu^2 - 2 logsigma - 1)
\* per batch element, and that value is zero exactly when mu = 0 and
\* logsigma = 0 in every latent dimension, and strictly positive otherwise.
C8_KlZeroIffStandardNormal ==
    KlCalled =>
        \A i \in 1..Len(vae.call.mu) :
            /\ Abs(vae.call.kl[i] - KlFormula(vae.call.mu[i], vae.call.logsigma[i]))
                 <= Tol * vae.latent_dim
            /\ vae.call.kl[i] = 0 <=> StandardNormal(vae.call.mu[i], vae.call.logsigma[i])
            /\ ~StandardNormal(vae.call.mu[i], vae.call.logsigma[i]) => vae.call.kl[i] > 0

\* C8, within the resolution of the arithmetic: kl_divergence returns
\* 1/2 * sum(sigma^2 + mu^2 - 2 logsigma - 1) per batch element to the
\* tolerance, never a negative value; the value is zero when mu = 0 and
\* logsigma = 0 in every latent dimension, and strictly positive when some mu
\* or logsigma is at least 0.5 in magnitude.
C8_KlMatchesFormula ==
    KlCalled =>
        \A i \in 1..Len(vae.call.mu) :
            /\ Abs(vae.call.kl[i] - KlFormula(vae.call.mu[i], vae.call.logsigma[i]))
                 <= Tol * vae.latent_dim
            /\ vae.call.kl[i] >= 0
            /\ StandardNormal(vae.call.mu[i], vae.call.logsigma[i]) => vae.call.kl[i] = 0
            /\ (\E d \in 1..vae.latent_dim :
                   \/ Abs(vae.call.mu[i][d]) >= Half
                   \/ Abs(vae.call.logsigma[i][d]) >= Half) => vae.call.kl[i] > 0

C8_Witness ==
    /\ KlCalled
    /\ vae.latent_dim = MaxLatent
    /\ Len(vae.call.mu) = MaxBatch
    /\ StandardNormal(vae.call.mu[1], vae.call.logsigma[1])
    /\ vae.call.kl[1] = 0

\* what C9 says of the two unknown-type and resnet cases
C9_Dispatch ==
    /\ last.type \notin {"resnet", "unet"} => (ctor = "RuntimeError" /\ NothingRegistered)
    /\ last.type = "resnet" => (ctor = "ok" /\ model.kind = "ResNet" /\ Registered)

\* C9 as stated: an architecture type other than "resnet" and "unet" makes the
\* constructor raise a configuration error with no network and no buffer
\* registered; "resnet" builds a ResNet and "unet" a MiniUnet, and construction
\* goes on to the schedule.
C9_UnetAlwaysBuilt ==
    ctor # "none" =>
        /\ C9_Dispatch
        /\ last.type = "unet" => (ctor = "ok" /\ model.kind = "MiniUnet" /\ Registered)

\* C9, with the depth taken into account: as above, but "unet" builds a
\* MiniUnet and goes on to the schedule when n_layers <= 2; with n_layers > 2
\* the constructor raises MiniUnet's AssertionError and registers nothing.
C9_UnknownTypeRaises ==
    ctor # "none" =>
        /\ C9_Dispatch
        /\ (last.type = "unet" /\ last.n_layers <= 2) =>
              (ctor = "ok" /\ model.kind = "MiniUnet" /\ Registered)
        /\ (last.type = "unet" /\ last.n_layers > 2) =>
              (ctor = "AssertionError" /\ NothingRegistered)

C9_Witness ==
    /\ ctor = "RuntimeError"
    /\ last.op = "__init__" /\ last.type = "vit"
    /\ type = "vit" /\ NothingRegistered

\* the shape of the tensor j levels down: 4^j times the channels, height and
\* width halved j times
Level(b, hidden_dim, j) == << b, 4^j * hidden_dim, 28 \div 2^j, 28 \div 2^j >>

\* C10: MiniUnet rejects n_layers > 2 at construction; for n_layers <= 2 and a
\* 28x28 input no layer of the forward pass rejects its input: down step i
\* meets even height and width, quarters the area, multiplies the channels by
\* 4 and pushes one skip; up step i pops the skip pushed last, which has the
\* shape of the current tensor, and the concatenation has the channel count
\* 2 * 4^i * hidden_dim + 1 the layer declares; after the last up step the
\* stack is empty and the output has the shape of the input.
C10_ForwardShapeConsistent ==
    /\ unet.pc = "rejected" => (unet.n_layers > 2 /\ unet.err = "AssertionError")
    /\ unet.pc \notin {"idle", "rejected"} => unet.net.n_layers <= 2
    /\ unet.pc \notin {"idle", "rejected", "built"} =>
         LET f == unet.f
             n == unet.net.n_layers
             h == unet.hidden_dim
             b == unet.input[1]
         IN  /\ f.pc = unet.pc
             /\ f.pc # "error"
             /\ f.pc = "embed" => (f.z = unet.input /\ f.skips = << >>)
             /\ f.pc = "down" =>
                  /\ f.i \in 1..n
                  /\ f.z = Level(b, h, f.i - 1)
                  /\ f.z[3] % 2 = 0 /\ f.z[4] % 2 = 0
                  /\ f.skips = [k \in 1..(f.i - 1) |-> Level(b, h, k)]
             /\ f.pc = "bottom" =>
                  /\ f.z = Level(b, h, n)
                  /\ f.skips = [k \in 1..n |-> Level(b, h, k)]
             /\ f.pc = "up" =>
                  /\ f.i \in 1..n
                  /\ f.z = Level(b, h, n + 1 - f.i)
                  /\ f.skips = [k \in 1..(n + 1 - f.i) |-> Level(b, h, k)]
                  /\ f.skips[Len(f.skips)] = f.z
                  /\ f.z[2] + f.skips[Len(f.skips)][2] + 1
                       = unet.net.upscaling[f.i].cin
                  /\ unet.net.upscaling[f.i].cin = 2 * 4^(n + 1 - f.i) * h + 1
             /\ f.pc = "out" => (f.skips = << >> /\ f.z = Level(b, h, 0))
             /\ f.pc = "done" => (f.skips = << >> /\ f.z = unet.input)

C10_Witness ==
    /\ unet.pc = "done"
    /\ unet.net.n_layers = 2
    /\ unet.input = << MaxBatch, 1, 28, 28 >>
    /\ unet.f.z = unet.input

====
